---- MODULE Spec2Model ----
(***************************************************************************)
(* Model of the wykoj judge: judge() and _judge_impl() of judge.py and the *)
(* Verdict enumeration of verdict.py.  Every judging operation (one call   *)
(* of judge) is a process; the isolate sandbox, the compiler, the task     *)
(* info service and the report service are the environment.  The model is  *)
(* of the deployed judge (constants.DEBUG false): the task is fetched from *)
(* the frontend and the outcome is posted to it.                           *)
(***************************************************************************)
EXTENDS Integers, Sequences, FiniteSets, TLC

\* ------------------------------------------------------------------ bounds
NumOps == 2
NumIds == 2
MaxCases == 2

Ops == 1..NumOps
Ids == 1..NumIds

\* ------------------------------------------------------------- verdict.py
\* class Verdict(str, Enum): the member names and their wire tokens.
Verdict == {"AC", "CE", "WA", "RE", "TLE", "IE"}

VerdictValue(name) ==
    CASE name = "AC" -> "ac"
      [] name = "CE" -> "ce"
      [] name = "WA" -> "wa"
      [] name = "RE" -> "re"
      [] name = "TLE" -> "tle"
      [] name = "IE" -> "ie"

\* The expression Verdict.NAME: the member, or AttributeError when the
\* enumeration has no member of that name.
AttributeError == "AttributeError"
VerdictAttr(name) == IF name \in Verdict THEN name ELSE AttributeError

\* ------------------------------------------------------------------ text
\* Text is a sequence of characters; str.strip() drops leading and trailing
\* whitespace.
Whitespace == {" ", "\n"}

RECURSIVE LStrip(_)
LStrip(s) ==
    IF s # <<>> /\ Head(s) \in Whitespace THEN LStrip(Tail(s)) ELSE s

RECURSIVE RStrip(_)
RStrip(s) ==
    IF s # <<>> /\ s[Len(s)] \in Whitespace
    THEN RStrip(SubSeq(s, 1, Len(s) - 1))
    ELSE s

Strip(s) == RStrip(LStrip(s))

\* An optional value: None is the empty tuple, Some(x) the 1-tuple <<x>>.
None == <<>>
Some(x) == <<x>>

\* --------------------------------------------------------------- languages
\* The languages _judge_impl dispatches on.
Language == {"cpp", "c", "ocaml", "pas", "kt", "py"}

code_filename(thread_id, language) == <<"code", thread_id, ".", language>>
code_path(thread_id, language) == <<"run/">> \o code_filename(thread_id, language)
executable_filename(thread_id, language) ==
    IF language = "kt" THEN <<"code", thread_id, ".jar">> ELSE <<"code", thread_id>>
executable_path(thread_id, language) ==
    <<"run/">> \o executable_filename(thread_id, language)
\* Mutant: one sidecar path for every thread.
metadata_path_shared(thread_id) == <<"run/", "metadata", ".txt">>

metadata_path(thread_id) == <<"run/", "metadata", thread_id, ".txt">>

compile_args(thread_id, language) ==
    CASE language = "cpp" ->
           <<"g++", "-O2", "-o", executable_path(thread_id, language),
             code_path(thread_id, language)>>
      [] language = "c" ->
           <<"gcc", "-O2", "-o", executable_path(thread_id, language),
             code_path(thread_id, language)>>
      [] language = "ocaml" ->
           <<"ocamlopt", "-S", "-o", executable_path(thread_id, language),
             code_path(thread_id, language)>>
      [] language = "pas" ->
           <<"fpc", "-O2", "-Sg", "-v0", "-XS", code_path(thread_id, language),
             <<"-o", executable_path(thread_id, language)>> >>
      [] language = "kt" ->
           <<"kotlinc", code_path(thread_id, language), "-include-runtime", "-d",
             executable_path(thread_id, language)>>
      [] OTHER -> <<>>

running_args(thread_id, language) ==
    CASE language = "kt" ->
           <<"java", "-jar", executable_filename(thread_id, language)>>
      [] language = "py" ->
           <<"/usr/bin/python3.9", code_filename(thread_id, language)>>
      [] compile_args(thread_id, language) # <<>> ->
           <<executable_filename(thread_id, language)>>
      [] OTHER -> <<>>

\* Mutant: the return code is tested for a negative value only.
CompileFailed_negative(returncode) == returncode < 0

\* Mutant: the return code of the compiler is not looked at.
CompileFailed_never(returncode) == FALSE

\* compile_proc.returncode != 0
CompileFailed(returncode) == returncode # 0

\* ------------------------------------------------------------ task info
\* TestCase(subtask, test_case, input, output); output is tc.get('output'),
\* so it may be None.
TestCase(subtask, test_case, input, output) ==
    [subtask |-> subtask, test_case |-> test_case, input |-> input, output |-> output]

TestCases ==
    { TestCase(1, 1, <<"x", "\n">>, Some(<<"x", "\n">>)),
      TestCase(1, 2, <<"y">>, Some(<<"y">>)),
      TestCase(2, 1, <<"x">>, None) }

SeqsUpTo(S, n) == UNION { [1..k -> S] : k \in 0..n }

TaskInfo(test_cases) ==
    [time_limit |-> 1, memory_limit |-> 256, grader |-> FALSE, test_cases |-> test_cases]

NoTaskInfo == TaskInfo(<<>>)

\* ------------------------------------------------ the metadata sidecar
\* A line of the sidecar is the list of its colon-separated fields after
\* strip(): <<"time", "0.5">> is "time:0.5", <<"">> is a blank line.
Line(key, value) == <<key, value>>
BlankLine == <<"">>

NoMetadata == [k \in {} |-> ""]

\* for line in f.readlines(): ... a, b = line.split(':'); metadata[a] = b
RECURSIVE ParseLines(_, _)
ParseLines(lines, metadata) ==
    IF lines = <<>> THEN [exc |-> "none", metadata |-> metadata]
    ELSE LET line == Head(lines) IN
         IF line = BlankLine THEN ParseLines(Tail(lines), metadata)
         ELSE IF Len(line) # 2 THEN [exc |-> "ValueError", metadata |-> metadata]
         ELSE ParseLines(Tail(lines),
                         [k \in DOMAIN metadata \cup {line[1]} |->
                             IF k = line[1] THEN line[2] ELSE metadata[k]])

\* float(s) and int(s) on the literals the sidecars below carry: the value
\* (float in milliseconds) or ValueError.
FloatLiterals == {"0.5", "1.1", "2048", "1536"}
IntLiterals == {"2048", "1536"}
ParseFloat(s) ==
    CASE s = "0.5" -> 500
      [] s = "1.1" -> 1100
      [] s = "2048" -> 2048000
      [] s = "1536" -> 1536000
ParseInt(s) ==
    CASE s = "2048" -> 2048
      [] s = "1536" -> 1536

\* int(metadata['max-rss']) / 1024 is a true division: the quotient is kept
\* exactly, as whole megabytes and the remaining 1024ths.
DivTrue(n, d) == [whole |-> n \div d, rem |-> n % d]

MetaOk == <<Line("time", "0.5"), Line("max-rss", "2048")>>
MetaNoTime == <<Line("max-rss", "2048")>>

MetaFiles ==
    { MetaOk,
      <<Line("time", "0.5"), BlankLine, Line("exitcode", "0"), Line("max-rss", "1536")>>,
      <<Line("time", "0.5"), Line("max-rss", "2048"), Line("status", "RE")>>,
      <<Line("status", "SG"), Line("exitsig", "11"), Line("time", "0.5"),
        Line("max-rss", "2048")>>,
      <<Line("status", "XX"), Line("time", "0.5"), Line("max-rss", "2048")>>,
      <<Line("status", "TO"), Line("time", "1.1"), Line("max-rss", "2048")>>,
      <<Line("status", "OK"), Line("time", "0.5"), Line("max-rss", "2048")>>,
      MetaNoTime,
      <<Line("time", "0.5")>>,
      <<Line("time", "0.5"), Line("max-rss", "1.1")>>,
      <<Line("time", "0.5"), Line("max-rss", "2048"),
        <<"message", "Caught fatal signal", " 11">> >> }

Stdouts ==
    { <<"x">>, <<" ", "x", "\n">>, <<"y">>, <<"x", " ", "x">> }

\* What one run of the submitted program in the sandbox leaves behind: the
\* captured stdout and the sidecar isolate wrote.
RunOutcomes == Stdouts \X MetaFiles

\* --------------------------------------------------- verdict evaluation
\* Mutant: any key besides time and max-rss is taken for a status.
verdict_of_any_key(stdout, output, metadata) ==
    LET base == IF Strip(stdout) # Strip(output)
                THEN VerdictAttr("WA") ELSE VerdictAttr("AC")
    IN IF DOMAIN metadata \ {"time", "max-rss"} # {}
       THEN IF "status" \notin DOMAIN metadata THEN VerdictAttr("SE")
            ELSE IF metadata["status"] \in {"RE", "SG", "XX"} THEN VerdictAttr("RE")
            ELSE IF metadata["status"] = "TO" THEN VerdictAttr("TLE")
            ELSE VerdictAttr("SE")
       ELSE base

\* Lines 156-166: the value of the local `verdict`, or AttributeError when a
\* Verdict member that is looked up does not exist.
verdict_of(stdout, output, metadata) ==
    LET base == IF Strip(stdout) # Strip(output)
                THEN VerdictAttr("WA") ELSE VerdictAttr("AC")
    IN IF "status" \in DOMAIN metadata
       THEN LET status == metadata["status"] IN
            IF status = "RE" \/ status = "SG" \/ status = "XX" THEN VerdictAttr("RE")
            ELSE IF status = "TO" THEN VerdictAttr("TLE")
            ELSE VerdictAttr("SE")
       ELSE base

\* Mutant: every verdict but WA scores.
Score_unless_WA(verdict) == IF verdict # VerdictAttr("WA") THEN 100 ELSE 0

\* score=100. if verdict == Verdict.AC else 0.
Score(verdict) == IF verdict = VerdictAttr("AC") THEN 100 ELSE 0

TestCaseResult(subtask, test_case, verdict, score, time_used, memory_used) ==
    [subtask |-> subtask, test_case |-> test_case, verdict |-> verdict,
     score |-> score, time_used |-> time_used, memory_used |-> memory_used]

NoTestCaseResult == TestCaseResult(0, 0, "", 0, 0, DivTrue(0, 1024))

\* The body of the test loop after the run (lines 148-174) for one test case,
\* with the map `metadata` starts from: the exception it raises ("none" if it
\* completes), the metadata map as far as it was built, and the
\* TestCaseResult appended.
loop_body_from(test_case, stdout, lines, metadata0) ==
    LET parsed == ParseLines(lines, metadata0)
        metadata == parsed.metadata
        verdict == verdict_of(stdout, test_case.output[1], metadata)
        fail(e) == [exc |-> e, metadata |-> metadata, result |-> NoTestCaseResult]
    IN  IF parsed.exc # "none" THEN fail(parsed.exc)
        ELSE IF test_case.output = None THEN fail(AttributeError)
        ELSE IF verdict = AttributeError THEN fail(AttributeError)
        ELSE IF "time" \notin DOMAIN metadata THEN fail("KeyError")
        ELSE IF metadata["time"] \notin FloatLiterals THEN fail("ValueError")
        ELSE IF "max-rss" \notin DOMAIN metadata THEN fail("KeyError")
        ELSE IF metadata["max-rss"] \notin IntLiterals THEN fail("ValueError")
        ELSE [exc |-> "none", metadata |-> metadata,
              result |-> TestCaseResult(test_case.subtask, test_case.test_case,
                                        verdict, Score(verdict),
                                        ParseFloat(metadata["time"]),
                                        DivTrue(ParseInt(metadata["max-rss"]), 1024))]

\* metadata = {} at the top of every iteration.
loop_body(test_case, stdout, lines) ==
    loop_body_from(test_case, stdout, lines, NoMetadata)

\* ------------------------------------------------------------------ state
VARIABLES
    submissions,       \* op -> the arguments of its judge call (code, language)
    queue,             \* the judge calls not made yet
    frontend,          \* the TaskInfo the frontend serves for the task
    threads,           \* threads_manager: the thread ids registered
    box,               \* id -> "absent" | "ready": the isolate sandbox
    pc,                \* op -> its position in judge / _judge_impl
    thread_id,         \* op -> the thread_id argument
    init_proc,         \* op -> init_proc.returncode (-1: not run)
    compile_proc,      \* op -> compile_proc.returncode (-1: not run)
    cleanup_proc,      \* op -> cleanup_proc.returncode (-1: not run)
    task_info,         \* op -> the local task_info
    idx,               \* op -> position of the for loop in task_info.test_cases
    test_case_results, \* op -> the local test_case_results
    run_stdout,        \* op -> run_proc.stdout of the last run
    metadata,          \* op -> the local metadata of the last run
    verdict,           \* op -> the local verdict of judge
    exc,               \* op -> the exception that left judge ("none")
    copied,            \* op -> what was copied into the sandbox
    fetches,           \* op -> number of get_task_info calls
    runs,              \* op -> number of isolate --run invocations
    cleanups,          \* op -> number of isolate --cleanup invocations
    removes,           \* op -> number of remove_thread calls
    reported,          \* op -> the payloads the report endpoint accepted
    files,             \* host path -> the file under run/: last writer, content
    response,          \* op -> the last HTTP exchange (the local response)
    copies             \* op -> number of shutil.copy calls into the sandbox

env == <<submissions, frontend>>
locals == <<init_proc, compile_proc, cleanup_proc, task_info, idx,
            test_case_results, run_stdout, verdict, metadata>>
history == <<copied, fetches, runs, cleanups, removes, reported>>
io == <<files, response, copies>>
vars == <<env, queue, threads, box, pc, thread_id, exc, locals, history, io>>

\* A file of the host: the operation that wrote it last and what it holds.
\* Source and executable hold one opaque line; a sidecar holds its lines.
File(writer, content) == [writer |-> writer, content |-> content]
SourceText == <<<<"source">>>>
Executable == <<<<"executable">>>>
WriteFile(fs, path, writer, content) == (path :> File(writer, content)) @@ fs

\* The local `response`: which request was made and how it ended.
NoResponse == [call |-> "none", status |-> "none"]
Response(call, status) == [call |-> call, status |-> status]

\* The value of judge's `verdict`: nothing yet, a Verdict, or a list of
\* TestCaseResult.
NoVerdict == [kind |-> "none", v |-> "", list |-> <<>>]
AVerdict(v) == [kind |-> "verdict", v |-> v, list |-> <<>>]
AList(list) == [kind |-> "list", v |-> "", list |-> list]

Submission(code, language) == [code |-> code, language |-> language]

InitLocals ==
    /\ threads = {}
    /\ box = [i \in Ids |-> "absent"]
    /\ pc = [o \in Ops |-> "idle"]
    /\ thread_id = [o \in Ops |-> 0]
    /\ init_proc = [o \in Ops |-> -1]
    /\ compile_proc = [o \in Ops |-> -1]
    /\ cleanup_proc = [o \in Ops |-> -1]
    /\ task_info = [o \in Ops |-> NoTaskInfo]
    /\ idx = [o \in Ops |-> 0]
    /\ test_case_results = [o \in Ops |-> <<>>]
    /\ run_stdout = [o \in Ops |-> <<>>]
    /\ metadata = [o \in Ops |-> NoMetadata]
    /\ verdict = [o \in Ops |-> NoVerdict]
    /\ exc = [o \in Ops |-> "none"]
    /\ copied = [o \in Ops |-> "none"]
    /\ fetches = [o \in Ops |-> 0]
    /\ runs = [o \in Ops |-> 0]
    /\ cleanups = [o \in Ops |-> 0]
    /\ removes = [o \in Ops |-> 0]
    /\ reported = [o \in Ops |-> <<>>]
    /\ files = <<>>
    /\ response = [o \in Ops |-> NoResponse]
    /\ copies = [o \in Ops |-> 0]

\* One judging operation, with a program that may behave in any way in the
\* sandbox: a C++ submission on any task of up to MaxCases test cases, or a
\* submission in any language on a task of at most one test case.
Init ==
    /\ queue = {1}
    /\ \E language \in Language, test_cases \in SeqsUpTo(TestCases, MaxCases) :
         /\ language = "cpp" \/ Len(test_cases) <= 1
         /\ submissions = [o \in Ops |-> Submission(RunOutcomes, language)]
         /\ frontend = TaskInfo(test_cases)
    /\ InitLocals

\* ------------------------------------------------------ threads_manager
\* The registry of thread ids in use.  A thread id is handed to one judge
\* call at a time: add_thread admits an id only while no other judging
\* operation holds it.
add_thread_admits(registry, id) == id \notin registry
add_thread_to(registry, id) == registry \cup {id}
remove_thread_from(registry, id) == registry \ {id}

\* ----------------------------------------------------------------- judge
\* An exception leaves judge: nothing after the raising statement runs.
Raises(o, e) ==
    /\ pc' = [pc EXCEPT ![o] = "raised"]
    /\ exc' = [exc EXCEPT ![o] = e]

\* Mutant: judge goes on to remove_thread without the cleanup invocation.
Returns_past_cleanup(o, value) ==
    /\ pc' = [pc EXCEPT ![o] = "remove"]
    /\ verdict' = [verdict EXCEPT ![o] = value]
    /\ exc' = exc

\* Mutant: judge reports as soon as _judge_impl has returned.
Returns_to_report(o, value) ==
    /\ pc' = [pc EXCEPT ![o] = "report"]
    /\ verdict' = [verdict EXCEPT ![o] = value]
    /\ exc' = exc

\* A `return` of a value from _judge_impl into `verdict = _judge_impl(...)`.
Returns(o, value) ==
    /\ pc' = [pc EXCEPT ![o] = "cleanup"]
    /\ verdict' = [verdict EXCEPT ![o] = value]
    /\ exc' = exc

\* Mutant: judge starts without registering its thread id.
add_thread_unregistered(o) ==
    /\ pc[o] = "idle"
    /\ o \in queue
    /\ \E id \in Ids :
         /\ add_thread_admits(threads, id)
         /\ thread_id' = [thread_id EXCEPT ![o] = id]
    /\ queue' = queue \ {o}
    /\ pc' = [pc EXCEPT ![o] = "init"]
    /\ UNCHANGED <<env, threads, box, exc, locals, history, io>>

\* threads_manager.add_thread(thread_id): the judge call starts.
add_thread(o) ==
    /\ pc[o] = "idle"
    /\ o \in queue
    /\ \E id \in Ids :
         /\ add_thread_admits(threads, id)
         /\ threads' = add_thread_to(threads, id)
         /\ thread_id' = [thread_id EXCEPT ![o] = id]
    /\ queue' = queue \ {o}
    /\ pc' = [pc EXCEPT ![o] = "init"]
    /\ UNCHANGED <<env, box, exc, locals, history, io>>

\* _judge_impl up to the init check: the source file is written and
\* isolate --init runs.
init_sandbox(o) ==
    /\ pc[o] = "init"
    /\ files' = WriteFile(files, code_path(thread_id[o], submissions[o].language),
                          o, SourceText)
    /\ \E returncode \in {0, 1} :
         /\ init_proc' = [init_proc EXCEPT ![o] = returncode]
         /\ IF returncode # 0
            THEN /\ IF VerdictAttr("SE") = AttributeError
                    THEN Raises(o, AttributeError) /\ verdict' = verdict
                    ELSE Returns(o, AVerdict(VerdictAttr("SE")))
                 /\ box' = box
            ELSE /\ box' = [box EXCEPT ![thread_id[o]] = "ready"]
                 /\ pc' = [pc EXCEPT ![o] = "build"]
                 /\ UNCHANGED exc /\ UNCHANGED verdict
    /\ UNCHANGED <<env, queue, threads, thread_id, compile_proc, cleanup_proc,
                   task_info, idx, test_case_results, run_stdout, metadata, history,
                   response, copies>>

\* The per-language dispatch, the compile invocation and the copy into the
\* sandbox.
build(o) ==
    /\ pc[o] = "build"
    /\ IF compile_args(thread_id[o], submissions[o].language) # <<>>
       THEN \E returncode \in {0, 1} :
              /\ compile_proc' = [compile_proc EXCEPT ![o] = returncode]
              /\ IF CompileFailed(returncode)
                 THEN /\ Returns(o, AVerdict(VerdictAttr("CE")))
                      /\ UNCHANGED <<copied, copies, files>>
                 ELSE /\ files' = WriteFile(files,
                                            executable_path(thread_id[o],
                                                            submissions[o].language),
                                            o, Executable)
                      /\ copied' = [copied EXCEPT ![o] = "executable"]
                      /\ copies' = [copies EXCEPT ![o] = @ + 1]
                      /\ pc' = [pc EXCEPT ![o] = "fetch"]
                      /\ UNCHANGED exc /\ UNCHANGED verdict
       ELSE /\ copied' = [copied EXCEPT ![o] = "code"]
            /\ copies' = [copies EXCEPT ![o] = @ + 1]
            /\ pc' = [pc EXCEPT ![o] = "fetch"]
            /\ UNCHANGED <<compile_proc, verdict, exc, files>>
    /\ UNCHANGED <<env, queue, threads, box, thread_id, init_proc, cleanup_proc,
                   task_info, idx, test_case_results, run_stdout, metadata,
                   fetches, runs, cleanups, removes, reported, response>>

\* get_task_info(task_id): the request fails, the response is an error
\* status, or the TaskInfo the frontend serves is built.
get_task_info ==
    { [exc |-> "ConnectionError", task_info |-> NoTaskInfo],
      [exc |-> "HTTPError", task_info |-> NoTaskInfo],
      [exc |-> "none", task_info |-> frontend] }

\* task_info = get_task_info(task_id); test_case_results = []
fetch(o) ==
    /\ pc[o] = "fetch"
    /\ fetches' = [fetches EXCEPT ![o] = @ + 1]
    /\ \E got \in get_task_info :
         /\ response' = [response EXCEPT ![o] = Response("get", got.exc)]
         /\ IF got.exc # "none"
            THEN /\ Raises(o, got.exc)
                 /\ UNCHANGED <<task_info, idx, test_case_results>>
            ELSE /\ task_info' = [task_info EXCEPT ![o] = got.task_info]
                 /\ test_case_results' = [test_case_results EXCEPT ![o] = <<>>]
                 /\ idx' = [idx EXCEPT ![o] = 1]
                 /\ pc' = [pc EXCEPT ![o] = "loop"]
                 /\ exc' = exc
    /\ UNCHANGED <<env, queue, threads, box, thread_id, init_proc, compile_proc,
                   cleanup_proc, run_stdout, metadata, verdict,
                   copied, runs, cleanups, removes, reported, files, copies>>

\* Mutant: the metadata map is created once, before the loop, and every
\* iteration adds to it.
run_test_case_carrying(o) ==
    /\ pc[o] = "loop"
    /\ idx[o] <= Len(task_info[o].test_cases)
    /\ runs' = [runs EXCEPT ![o] = @ + 1]
    /\ \E outcome \in submissions[o].code :
         LET body == loop_body_from(task_info[o].test_cases[idx[o]], outcome[1],
                                    outcome[2], metadata[o])
         IN  /\ files' = WriteFile(files, metadata_path(thread_id[o]), o, outcome[2])
             /\ run_stdout' = [run_stdout EXCEPT ![o] = outcome[1]]
             /\ metadata' = [metadata EXCEPT ![o] = body.metadata]
             /\ IF body.exc # "none"
                THEN /\ Raises(o, body.exc)
                     /\ UNCHANGED <<idx, test_case_results>>
                ELSE /\ test_case_results' =
                          [test_case_results EXCEPT ![o] = Append(@, body.result)]
                     /\ idx' = [idx EXCEPT ![o] = @ + 1]
                     /\ UNCHANGED <<pc, exc>>
    /\ UNCHANGED <<env, queue, threads, box, thread_id, init_proc, compile_proc,
                   cleanup_proc, task_info, verdict,
                   copied, fetches, cleanups, removes, reported, response, copies>>

\* One iteration of the test loop: isolate --run on the next test case, then
\* the sidecar is parsed and the TestCaseResult appended.
run_test_case(o) ==
    /\ pc[o] = "loop"
    /\ idx[o] <= Len(task_info[o].test_cases)
    /\ runs' = [runs EXCEPT ![o] = @ + 1]
    /\ \E outcome \in submissions[o].code :
         LET body == loop_body(task_info[o].test_cases[idx[o]], outcome[1], outcome[2])
         IN  /\ files' = WriteFile(files, metadata_path(thread_id[o]), o, outcome[2])
             /\ run_stdout' = [run_stdout EXCEPT ![o] = outcome[1]]
             /\ metadata' = [metadata EXCEPT ![o] = body.metadata]
             /\ IF body.exc # "none"
                THEN /\ Raises(o, body.exc)
                     /\ UNCHANGED <<idx, test_case_results>>
                ELSE /\ test_case_results' =
                          [test_case_results EXCEPT ![o] = Append(@, body.result)]
                     /\ idx' = [idx EXCEPT ![o] = @ + 1]
                     /\ UNCHANGED <<pc, exc>>
    /\ UNCHANGED <<env, queue, threads, box, thread_id, init_proc, compile_proc,
                   cleanup_proc, task_info, verdict,
                   copied, fetches, cleanups, removes, reported, response, copies>>

\* The loop is over: return test_case_results.
return_results(o) ==
    /\ pc[o] = "loop"
    /\ idx[o] > Len(task_info[o].test_cases)
    /\ Returns(o, AList(test_case_results[o]))
    /\ UNCHANGED <<env, queue, threads, box, thread_id, init_proc, compile_proc,
                   cleanup_proc, task_info, idx, test_case_results, run_stdout,
                   metadata, history, io>>

\* isolate --cleanup and the check of its return code.
cleanup(o) ==
    /\ pc[o] = "cleanup"
    /\ cleanups' = [cleanups EXCEPT ![o] = @ + 1]
    /\ \E returncode \in {0, 1} :
         /\ cleanup_proc' = [cleanup_proc EXCEPT ![o] = returncode]
         /\ IF returncode # 0
            THEN /\ IF VerdictAttr("SE") = AttributeError
                    THEN Raises(o, AttributeError) /\ verdict' = verdict
                    ELSE /\ verdict' = [verdict EXCEPT ![o] = AVerdict(VerdictAttr("SE"))]
                         /\ pc' = [pc EXCEPT ![o] = "remove"]
                         /\ exc' = exc
                 /\ box' = box
            ELSE /\ box' = [box EXCEPT ![thread_id[o]] = "absent"]
                 /\ pc' = [pc EXCEPT ![o] = "remove"]
                 /\ UNCHANGED exc /\ UNCHANGED verdict
    /\ UNCHANGED <<env, queue, threads, thread_id, init_proc, compile_proc,
                   task_info, idx, test_case_results, run_stdout, metadata,
                   copied, fetches, runs, removes, reported, io>>

\* threads_manager.remove_thread(thread_id)
remove_thread(o) ==
    /\ pc[o] = "remove"
    /\ threads' = remove_thread_from(threads, thread_id[o])
    /\ removes' = [removes EXCEPT ![o] = @ + 1]
    /\ pc' = [pc EXCEPT ![o] = "report"]
    /\ UNCHANGED <<env, queue, box, thread_id, exc, locals,
                   copied, fetches, runs, cleanups, reported, io>>

\* The body posted to the report endpoint: {'verdict': ...} for a Verdict,
\* {'test_case_results': [...]} otherwise.
report_json(value) ==
    IF value.kind = "verdict"
    THEN [key |-> "verdict", verdict |-> VerdictValue(value.v), test_case_results |-> <<>>]
    ELSE [key |-> "test_case_results", verdict |-> "",
          test_case_results |->
              [i \in 1..Len(value.list) |->
                  [value.list[i] EXCEPT !.verdict = VerdictValue(@)]]]

\* Mutant: the post is made and its outcome is not looked at.
report_unchecked(o) ==
    /\ pc[o] = "report"
    /\ \E status \in {"none", "ConnectionError", "HTTPError"} :
         /\ response' = [response EXCEPT ![o] = Response("post", status)]
         /\ reported' = IF status = "none"
                        THEN [reported EXCEPT ![o] = Append(@, report_json(verdict[o]))]
                        ELSE reported
         /\ pc' = [pc EXCEPT ![o] = "done"]
         /\ exc' = exc
    /\ UNCHANGED <<env, queue, threads, box, thread_id, locals,
                   copied, fetches, runs, cleanups, removes, files, copies>>

\* requests.post(report_url, ...); response.raise_for_status()
report(o) ==
    /\ pc[o] = "report"
    /\ \E status \in {"none", "ConnectionError", "HTTPError"} :
         /\ response' = [response EXCEPT ![o] = Response("post", status)]
         /\ IF status = "none"
            THEN /\ reported' = [reported EXCEPT ![o] = Append(@, report_json(verdict[o]))]
                 /\ pc' = [pc EXCEPT ![o] = "done"]
                 /\ exc' = exc
            ELSE /\ Raises(o, status)
                 /\ reported' = reported
    /\ UNCHANGED <<env, queue, threads, box, thread_id, locals,
                   copied, fetches, runs, cleanups, removes, files, copies>>

Next ==
    \E o \in Ops :
        \/ add_thread(o)
        \/ init_sandbox(o)
        \/ build(o)
        \/ fetch(o)
        \/ run_test_case(o)
        \/ return_results(o)
        \/ cleanup(o)
        \/ remove_thread(o)
        \/ report(o)

Spec == Init /\ [][Next]_vars

\* The pool of workers: every operation of Ops is a judge call some worker
\* makes, in C++ or Python, on a task of one test case; the program prints
\* the expected output, or the sandbox leaves a sidecar without time.
PoolCode == { <<<<"x">>, MetaOk>>, <<<<"x">>, MetaNoTime>> }

InitPool ==
    /\ queue = Ops
    /\ submissions =
         [o \in Ops |-> Submission(PoolCode, IF o % 2 = 1 THEN "cpp" ELSE "py")]
    /\ frontend = TaskInfo(<<TestCase(1, 1, <<"x", "\n">>, Some(<<"x", "\n">>))>>)
    /\ InitLocals

SpecPool == InitPool /\ [][Next]_vars


\* ---------------------------------------------------------------- claims
Ended(o) == pc[o] \in {"done", "raised"}
ImplEnded(o) == pc[o] \in {"cleanup", "remove", "report", "done", "raised"}
InUse(o) == pc[o] \in {"init", "build", "fetch", "loop", "cleanup", "remove"}
SEReport == [key |-> "verdict", verdict |-> "se", test_case_results |-> <<>>]

\* C1: every judging operation whose sandbox init succeeded has invoked
\* cleanup exactly once by the time it ends, on every exit path (normal
\* completion, compile failure, any exception).
C1_CleanupOnceOnEveryExit ==
    \A o \in Ops : (Ended(o) /\ init_proc[o] = 0) => cleanups[o] = 1

\* C2: once the compile invocation has exited non-zero, nothing is copied
\* into the sandbox, task info is not fetched, no test case is run, no
\* TestCaseResult exists and the result of _judge_impl is the verdict CE.
C2_CompileFailureShortCircuits ==
    \A o \in Ops :
        (compile_proc[o] # -1 /\ compile_proc[o] # 0) =>
            /\ copied[o] = "none"
            /\ fetches[o] = 0
            /\ runs[o] = 0
            /\ test_case_results[o] = <<>>
            /\ verdict[o] = AVerdict("CE")

C2_Witness ==
    \E o \in Ops : compile_proc[o] = 1 /\ pc[o] = "cleanup" /\ init_proc[o] = 0

\* C3: once sandbox init has exited non-zero, the result is the single
\* verdict SE, nothing was compiled or run, and SE is what a finished
\* operation has reported.
C3_InitFailureYieldsSE ==
    \A o \in Ops :
        init_proc[o] = 1 =>
            /\ verdict[o] = AVerdict("SE")
            /\ compile_proc[o] = -1
            /\ runs[o] = 0
            /\ test_case_results[o] = <<>>
            /\ (pc[o] = "done" => reported[o] = <<SEReport>>)

\* The test case of the last run, and whether that run left a sidecar that
\* parses and carries time and max-rss, for a test case with an output.
LastCase(o) == task_info[o].test_cases[runs[o]]
WellFormedRun(o) ==
    /\ runs[o] > 0
    /\ exc[o] # "ValueError"
    /\ {"time", "max-rss"} \subseteq DOMAIN metadata[o]
    /\ metadata[o]["time"] \in FloatLiterals
    /\ metadata[o]["max-rss"] \in IntLiterals
    /\ LastCase(o).output # None

ClaimedVerdict(o) ==
    IF "status" \in DOMAIN metadata[o]
    THEN IF metadata[o]["status"] \in {"RE", "SG", "XX"} THEN "RE"
         ELSE IF metadata[o]["status"] = "TO" THEN "TLE"
         ELSE "SE"
    ELSE IF Strip(run_stdout[o]) = Strip(LastCase(o).output[1]) THEN "AC" ELSE "WA"

\* C4: every test case that was run gets a TestCaseResult whose verdict
\* follows the precedence: with a status in the sidecar RE (RE, SG, XX), TLE
\* (TO) or SE (any other status), whatever the output; without one AC if the
\* trimmed outputs are equal and WA otherwise.
C4_VerdictPrecedence ==
    \A o \in Ops :
        WellFormedRun(o) =>
            /\ Len(test_case_results[o]) = runs[o]
            /\ test_case_results[o][runs[o]].verdict = ClaimedVerdict(o)

\* C5: in every TestCaseResult, kept or reported, the score is 100 exactly
\* when the verdict is AC and 0 otherwise.
C5_ScoreIffAC ==
    \A o \in Ops :
        /\ \A i \in 1..Len(test_case_results[o]) :
             /\ test_case_results[o][i].score \in {0, 100}
             /\ test_case_results[o][i].score = 100
                    <=> test_case_results[o][i].verdict = "AC"
        /\ \A j \in 1..Len(reported[o]) :
             \A i \in 1..Len(reported[o][j].test_case_results) :
                 /\ reported[o][j].test_case_results[i].score \in {0, 100}
                 /\ reported[o][j].test_case_results[i].score = 100
                        <=> reported[o][j].test_case_results[i].verdict = "ac"

C5_Witness ==
    \E o \in Ops :
        /\ pc[o] = "done"
        /\ Len(reported[o]) = 1
        /\ \E i, k \in 1..Len(reported[o][1].test_case_results) :
             /\ reported[o][1].test_case_results[i].verdict = "ac"
             /\ reported[o][1].test_case_results[i].score = 100
             /\ reported[o][1].test_case_results[k].verdict = "re"
             /\ reported[o][1].test_case_results[k].score = 0

\* C6: once the cleanup invocation has exited non-zero the outcome is the
\* single verdict SE, and that is what a finished operation has reported;
\* after a cleanup that exited zero the computed result is reported as it is.
C6_CleanupFailureReportsSE ==
    \A o \in Ops :
        /\ cleanup_proc[o] = 1 =>
             /\ verdict[o] = AVerdict("SE")
             /\ (pc[o] = "done" => reported[o] = <<SEReport>>)
        /\ (cleanup_proc[o] = 0 /\ pc[o] = "done") =>
             reported[o] = <<report_json(verdict[o])>>

NoWholeFailure(o) == init_proc[o] = 0 /\ compile_proc[o] \in {-1, 0}
LoopCompleted(o) ==
    fetches[o] = 1 /\ pc[o] # "fetch" /\ idx[o] > Len(task_info[o].test_cases)
ResultsMatchTask(o) ==
    /\ Len(verdict[o].list) = Len(task_info[o].test_cases)
    /\ \A i \in 1..Len(verdict[o].list) :
         /\ verdict[o].list[i].subtask = task_info[o].test_cases[i].subtask
         /\ verdict[o].list[i].test_case = task_info[o].test_cases[i].test_case

\* C7: when _judge_impl has ended, its result is the list of one
\* TestCaseResult per test case of the task, in task order and with the same
\* identities, if there was no init or compile failure and the loop
\* completed; otherwise it is a single verdict.
C7_ListOrSingleVerdict ==
    \A o \in Ops :
        ImplEnded(o) =>
            IF NoWholeFailure(o) /\ LoopCompleted(o)
            THEN verdict[o].kind = "list" /\ ResultsMatchTask(o)
            ELSE verdict[o].kind = "verdict"

\* C8: no two judging operations are, at the same time, between their
\* add_thread and their remove_thread with the same thread id.
C8_ExclusiveSandboxId ==
    \A o1, o2 \in Ops :
        (o1 # o2 /\ InUse(o1) /\ InUse(o2)) => thread_id[o1] # thread_id[o2]

C8_Witness ==
    \E o1, o2 \in Ops :
        /\ o1 # o2
        /\ pc[o1] = "loop"
        /\ pc[o2] = "cleanup"
        /\ thread_id[o1] # thread_id[o2]

\* C9: every judging operation that has ended has released its thread id
\* exactly once.
C9_ReleasedExactlyOnce ==
    \A o \in Ops : Ended(o) => removes[o] = 1

\* C10: once the cleanup of a judging operation has completed and the
\* operation has ended, its sandbox id is free for lease again: it is not
\* registered, or only because a later operation leased it in turn.
C10_IdEligibleAfterCleanup ==
    \A o \in Ops :
        (Ended(o) /\ cleanups[o] = 1) =>
            \/ thread_id[o] \notin threads
            \/ \E o2 \in Ops :
                 /\ o2 # o
                 /\ pc[o2] # "idle"
                 /\ thread_id[o2] = thread_id[o]
                 /\ removes[o2] = 0

\* C11: every verdict the orchestrator assigns is a member of the Verdict
\* enumeration, so assigning it never fails: a verdict held or listed is a
\* member, and the only AttributeError that leaves judge is the one of a test
\* case without expected output.
C11_AssignedVerdictsAreMembers ==
    \A o \in Ops :
        /\ verdict[o].kind = "verdict" => verdict[o].v \in Verdict
        /\ \A i \in 1..Len(test_case_results[o]) :
             test_case_results[o][i].verdict \in Verdict
        /\ exc[o] = AttributeError => (runs[o] > 0 /\ LastCase(o).output = None)

\* C12: the test cases are run one at a time in task order, each once, and a
\* test case that ends in RE, TLE or SE (a sidecar with a status) still gets
\* its TestCaseResult, so that the loop goes on to the later test cases.
C12_LoopRunsEveryCase ==
    \A o \in Ops :
        /\ runs[o] <= Len(task_info[o].test_cases)
        /\ Len(test_case_results[o]) <= runs[o]
        /\ \A i \in 1..Len(test_case_results[o]) :
             /\ test_case_results[o][i].subtask = task_info[o].test_cases[i].subtask
             /\ test_case_results[o][i].test_case = task_info[o].test_cases[i].test_case
        /\ (WellFormedRun(o) /\ "status" \in DOMAIN metadata[o]) =>
             Len(test_case_results[o]) = runs[o]
        /\ (pc[o] = "loop" /\ idx[o] <= Len(task_info[o].test_cases)) =>
             runs[o] = idx[o] - 1

\* C13: when sandbox init has failed, cleanup is not invoked and the
\* operation goes on to report (it ends with its report made, unless the
\* report request itself failed); cleanup is invoked only after an init
\* that succeeded.
C13_InitFailureSkipsCleanup ==
    \A o \in Ops :
        /\ cleanups[o] > 0 => init_proc[o] = 0
        /\ init_proc[o] = 1 =>
             /\ cleanups[o] = 0
             /\ Ended(o) => (response[o].call = "post" /\
                             (response[o].status = "none" => Len(reported[o]) = 1))

\* C14: for each judging operation the steps against its sandbox id come in
\* the order lease, init, runs, cleanup, release: the id is registered while
\* the operation works on it, a run is issued only after an init that
\* succeeded and never after cleanup, and the id is released only after the
\* cleanup invocation has returned, after which nothing more is issued.
OrderSoFar(o) ==
    /\ InUse(o) => thread_id[o] \in threads
    /\ (init_proc[o] # -1 \/ runs[o] > 0 \/ cleanups[o] > 0) => pc[o] # "idle"
    /\ runs[o] > 0 => init_proc[o] = 0
    /\ removes[o] > 0 => (cleanups[o] = 1 /\ cleanup_proc[o] # -1)

OrderOfStep(o) ==
    /\ init_proc'[o] # init_proc[o] => (runs[o] = 0 /\ cleanups[o] = 0 /\ removes[o] = 0)
    /\ runs'[o] # runs[o] => (init_proc[o] = 0 /\ cleanups[o] = 0 /\ removes[o] = 0)
    /\ cleanups'[o] # cleanups[o] => removes[o] = 0
    /\ removes'[o] # removes[o] => (cleanups[o] = 1 /\ thread_id[o] \in threads)

C14_SandboxOperationOrder ==
    [][\A o \in Ops : OrderSoFar(o)' /\ OrderOfStep(o)]_vars

C14_Witness ==
    \E o \in Ops :
        /\ pc[o] = "done"
        /\ init_proc[o] = 0
        /\ runs[o] = 2
        /\ cleanups[o] = 1
        /\ removes[o] = 1

\* C15: a request to the task info service or to the report endpoint that
\* fails leaves judge as that exception; after a failed task info request
\* there is no result and nothing has been reported.
C15_CollaboratorFailurePropagates ==
    \A o \in Ops :
        response[o].status # "none" =>
            /\ pc[o] = "raised"
            /\ exc[o] = response[o].status
            /\ response[o].call = "get" =>
                 (verdict[o].kind = "none" /\ reported[o] = <<>> /\ runs[o] = 0)

C15_Witness ==
    \E o \in Ops :
        /\ response[o] = Response("get", "HTTPError")
        /\ pc[o] = "raised"
        /\ init_proc[o] = 0

\* C16: the sidecar is read strictly.  A run whose sidecar lacks time or
\* max-rss makes the operation fail without a TestCaseResult for that test
\* case; with both present, status is optional and no other key changes the
\* verdict: it is the one the status (RE, SG, XX, TO) or, without a status,
\* the output comparison gives.
C16_StrictSidecar ==
    \A o \in Ops :
        runs[o] > 0 =>
            /\ ~({"time", "max-rss"} \subseteq DOMAIN metadata[o]) =>
                 (pc[o] = "raised" /\ Len(test_case_results[o]) = runs[o] - 1)
            /\ ( /\ WellFormedRun(o)
                 /\ "status" \in DOMAIN metadata[o] =>
                        metadata[o]["status"] \in {"RE", "SG", "XX", "TO"} ) =>
                 /\ Len(test_case_results[o]) = runs[o]
                 /\ test_case_results[o][runs[o]].verdict = ClaimedVerdict(o)

C16_Witness ==
    \E o \in Ops :
        /\ runs[o] = 1
        /\ DOMAIN metadata[o] = {"time", "max-rss", "exitcode"}
        /\ Len(test_case_results[o]) = 1
        /\ test_case_results[o][1].verdict = "AC"

\* C17: exactly one file is copied into the sandbox, before the first run:
\* the executable, after a compile that exited zero, for every language but
\* Python; the source, with no compile invocation, for Python.
C17_OneCopyBeforeRuns ==
    \A o \in Ops :
        /\ copies[o] <= 1
        /\ (runs[o] > 0 \/ pc[o] \in {"fetch", "loop"}) => copies[o] = 1
        /\ copies[o] = 0 => copied[o] = "none"
        /\ submissions[o].language = "py" => compile_proc[o] = -1
        /\ copies[o] = 1 =>
             IF submissions[o].language = "py"
             THEN copied[o] = "code"
             ELSE copied[o] = "executable" /\ compile_proc[o] = 0

C17_Witness ==
    \E o \in Ops :
        /\ submissions[o].language = "py"
        /\ runs[o] = 1
        /\ copied[o] = "code"
        /\ compile_proc[o] = -1

\* C18: a judging operation that has run to completion has reported exactly
\* one outcome, a verdict or a list of TestCaseResult and not both, and a
\* report is made only after the cleanup invocation and the release of the
\* thread id.
C18_OneReportAfterRelease ==
    \A o \in Ops :
        /\ Len(reported[o]) <= 1
        /\ pc[o] = "done" => Len(reported[o]) = 1
        /\ \A j \in 1..Len(reported[o]) :
             \/ /\ reported[o][j].key = "verdict"
                /\ reported[o][j].verdict # ""
                /\ reported[o][j].test_case_results = <<>>
             \/ /\ reported[o][j].key = "test_case_results"
                /\ reported[o][j].verdict = ""
        /\ (response[o].call = "post" \/ Len(reported[o]) > 0) =>
             (cleanups[o] = 1 /\ removes[o] = 1)

C18_Witness ==
    \E o \in Ops :
        /\ pc[o] = "done"
        /\ reported[o][1].key = "test_case_results"
        /\ Len(reported[o][1].test_case_results) = 2

\* The keys and the pairs of the lines of a sidecar.
PairsOf(lines) == { lines[i] : i \in { j \in 1..Len(lines) : Len(lines[j]) = 2 } }
Sidecar(o) == files[metadata_path(thread_id[o])]

\* C19: what a test case gets depends on its own run only: after a run the
\* metadata map holds nothing but pairs of the sidecar written for that run,
\* and the TestCaseResult has the verdict, score, time and memory that the
\* run's stdout and that sidecar give.
C19_OwnRunOnly ==
    \A o \in Ops :
        runs[o] > 0 =>
            /\ Sidecar(o).writer = o
            /\ \A k \in DOMAIN metadata[o] :
                 <<k, metadata[o][k]>> \in PairsOf(Sidecar(o).content)
            /\ Len(test_case_results[o]) = runs[o] =>
                 LET r == test_case_results[o][runs[o]] IN
                 /\ r.verdict = ClaimedVerdict(o)
                 /\ r.score = IF r.verdict = "AC" THEN 100 ELSE 0
                 /\ r.time_used = ParseFloat(metadata[o]["time"])
                 /\ r.memory_used = DivTrue(ParseInt(metadata[o]["max-rss"]), 1024)

C19_Witness ==
    \E o \in Ops :
        /\ runs[o] = 2
        /\ Len(test_case_results[o]) = 2
        /\ test_case_results[o][1].verdict = "RE"
        /\ test_case_results[o][2].verdict = "AC"
        /\ "status" \notin DOMAIN metadata[o]

\* The host paths of a judging operation, and those it has written.
PathsOf(o) ==
    { code_path(thread_id[o], submissions[o].language),
      executable_path(thread_id[o], submissions[o].language),
      metadata_path(thread_id[o]) }
WrittenBy(o) ==
    { p \in PathsOf(o) :
        \/ p = code_path(thread_id[o], submissions[o].language) /\ init_proc[o] # -1
        \/ p = executable_path(thread_id[o], submissions[o].language)
             /\ compile_proc[o] = 0
        \/ p = metadata_path(thread_id[o]) /\ runs[o] > 0 }

\* C20: two judging operations at work with distinct thread ids share no
\* host file: their source, executable and sidecar paths are disjoint, and
\* every file one of them has written is still as it wrote it.
C20_DisjointHostFiles ==
    \A o1, o2 \in Ops :
        (o1 # o2 /\ InUse(o1) /\ InUse(o2) /\ thread_id[o1] # thread_id[o2]) =>
            /\ PathsOf(o1) \cap PathsOf(o2) = {}
            /\ \A p \in WrittenBy(o1) : p \in DOMAIN files /\ files[p].writer = o1

C20_Witness ==
    \E o1, o2 \in Ops :
        /\ o1 # o2
        /\ InUse(o1) /\ InUse(o2)
        /\ thread_id[o1] # thread_id[o2]
        /\ runs[o1] = 1 /\ runs[o2] = 1
        /\ compile_proc[o1] = 0

====
